---------------------------- MODULE Spec2Model ----------------------------
(***************************************************************************)
(* Model of the RTRWH/AR calculation engine (CalculationEngine.calculate   *)
(* and its stages) together with the static lookup tables it reads.        *)
(*                                                                         *)
(* JavaScript numbers are modelled as exact rationals [n, d] in lowest     *)
(* terms with d > 0; Math.round, Math.ceil, Math.sqrt (under ceil) and     *)
(* toFixed(1) are computed on them as the code computes them.  Strings are *)
(* sequences of one-character strings so that toLowerCase, includes,       *)
(* substring and startsWith can be computed.                               *)
(***************************************************************************)
EXTENDS Integers, Sequences, FiniteSets, TLC

VARIABLES
    cities,          \* the static city table (cities.json), in table order
    coefficients,    \* the static coefficient table (coefficients.json)
    pc,              \* where the request is: "idle", "validated", "returned", "threw"
    userInput,       \* the validated UserInput handed to calculate
    calculationType, \* 'rainwater' | 'recharge'
    resolvedCity,    \* calculate's local cityData: the city record it resolved
    outcome,         \* what calculate produced for the current request
    earlier,         \* history: one earlier finished call, kept for comparison
    submissions,     \* MemStorage.submissions: the Map, as its entries in insertion order
    issued,          \* the identifiers randomUUID has issued
    clock,           \* the time new Date() reads
    saved,           \* history: the submissions saveSubmission has returned
    lastCall         \* history: the last call of the store, its result and the Map before it

engineVars == <<cities, coefficients, pc, userInput, calculationType, resolvedCity, outcome,
                earlier>>

storageVars == <<submissions, issued, clock, saved, lastCall>>

vars == <<engineVars, storageVars>>

None == [kind |-> "none"]

(***************************************************************************)
(* Numbers                                                                 *)
(***************************************************************************)
Abs(i) == IF i < 0 THEN -i ELSE i

RECURSIVE GCD(_, _)
GCD(a, b) == IF b = 0 THEN a ELSE GCD(b, a % b)

\* The rational n/d in lowest terms, d > 0.
Q(n, d) ==
    LET g == GCD(Abs(n), Abs(d))
        s == IF d < 0 THEN -1 ELSE 1
    IN  [n |-> s * (n \div g), d |-> s * (d \div g)]

Num(i) == [n |-> i, d |-> 1]

Mul(x, y) == Q(x.n * y.n, x.d * y.d)
Div(x, y) == Q(x.n * y.d, x.d * y.n)
Add(x, y) == Q(x.n * y.d + y.n * x.d, x.d * y.d)
Lt(x, y)  == x.n * y.d < y.n * x.d
Le(x, y)  == x.n * y.d <= y.n * x.d
Gt(x, y)  == Lt(y, x)
Ge(x, y)  == Le(y, x)
MinQ(x, y) == IF Lt(y, x) THEN y ELSE x
MaxQ(x, y) == IF Lt(x, y) THEN y ELSE x
Min(a, b) == IF b < a THEN b ELSE a
Max(a, b) == IF a < b THEN b ELSE a

\* Math.round: the nearest integer, a tie going up (floor(x + 1/2)).
Round(x) == (2 * x.n + x.d) \div (2 * x.d)

\* Math.ceil(Math.sqrt(x)) for x >= 0: the least s >= 0 with s * s >= x.
RECURSIVE CeilSqrtFrom(_, _)
CeilSqrtFrom(x, s) == IF s * s * x.d >= x.n THEN s ELSE CeilSqrtFrom(x, s + 1)
CeilSqrt(x) == CeilSqrtFrom(x, 0)

(***************************************************************************)
(* Strings                                                                 *)
(***************************************************************************)
UpperChars == <<"A","B","C","D","E","F","G","H","I","J","K","L","M",
                "N","O","P","Q","R","S","T","U","V","W","X","Y","Z">>
LowerChars == <<"a","b","c","d","e","f","g","h","i","j","k","l","m",
                "n","o","p","q","r","s","t","u","v","w","x","y","z">>

LowerChar(c) ==
    IF \E i \in 1..Len(UpperChars) : UpperChars[i] = c
    THEN LowerChars[CHOOSE i \in 1..Len(UpperChars) : UpperChars[i] = c]
    ELSE c

\* String.prototype.toLowerCase
toLowerCase(s) == [i \in 1..Len(s) |-> LowerChar(s[i])]

\* s.substring(0, k)
substring0(s, k) == SubSeq(s, 1, Min(k, Len(s)))

\* s.startsWith(p)
startsWith(s, p) == Len(p) <= Len(s) /\ SubSeq(s, 1, Len(p)) = p

\* s.includes(p)
includes(s, p) ==
    \E i \in 0..(Len(s) - Len(p)) : SubSeq(s, i + 1, i + Len(p)) = p


(***************************************************************************)
(* Static data: the city table and the coefficient table                   *)
(***************************************************************************)
Nums(ints)   == [i \in 1..Len(ints) |-> Num(ints[i])]
Tenths(ints) == [i \in 1..Len(ints) |-> Q(ints[i], 10)]

\* CityData records the table is built from (cityDataSchema).
Delhi ==
    [city |-> <<"D","e","l","h","i">>, state |-> <<"D","e","l","h","i">>,
     pincode |-> <<"1","1","0","0","0","1">>,
     monthlyRainfall |-> Nums(<<19, 20, 15, 21, 25, 70, 237, 235, 113, 17, 9, 9>>),
     annualRainfall |-> Num(790), groundwaterDepth |-> Num(20),
     aquiferType |-> "Alluvial", region |-> "North"]

Mumbai ==
    [city |-> <<"M","u","m","b","a","i">>,
     state |-> <<"M","a","h","a","r","a","s","h","t","r","a">>,
     pincode |-> <<"4","0","0","0","0","1">>,
     monthlyRainfall |-> Nums(<<1, 1, 0, 1, 11, 537, 719, 483, 324, 73, 14, 3>>),
     annualRainfall |-> Num(2167), groundwaterDepth |-> Num(5),
     aquiferType |-> "Coastal", region |-> "West"]

NaviMumbai ==
    [city |-> <<"N","a","v","i"," ","M","u","m","b","a","i">>,
     state |-> <<"M","a","h","a","r","a","s","h","t","r","a">>,
     pincode |-> <<"4","0","0","7","0","3">>,
     monthlyRainfall |-> Tenths(<<5, 5, 0, 15, 125, 5205, 7000, 4605, 3105, 705, 125, 25>>),
     annualRainfall |-> Q(20920, 10), groundwaterDepth |-> Num(4),
     aquiferType |-> "Coastal", region |-> "West"]

Jaisalmer ==
    [city |-> <<"J","a","i","s","a","l","m","e","r">>,
     state |-> <<"R","a","j","a","s","t","h","a","n">>,
     pincode |-> <<"3","4","5","0","0","1">>,
     monthlyRainfall |-> Nums(<<2, 2, 3, 2, 5, 16, 60, 65, 25, 2, 1, 1>>),
     annualRainfall |-> Num(184), groundwaterDepth |-> Num(40),
     aquiferType |-> "Desert", region |-> "West"]

CityPool == {Delhi, Mumbai, NaviMumbai, Jaisalmer}

\* The longest city table considered.
MaxCities == 2

\* Every table of at most MaxCities distinct records, in every order; the
\* empty table is one of them.
CityTables ==
    UNION { { t \in [1..k -> CityPool] : \A i, j \in 1..k : i # j => t[i] # t[j] }
            : k \in 0..MaxCities }

RoofTypes == {"RCC", "GI", "Asbestos", "Tiles"}
SoilTypes == {"Sandy", "Loamy", "Clayey"}
Purposes == {"Domestic", "Irrigation", "Industrial"}
Environments == {"Residential", "Industrial", "Agricultural"}
Budgets == {"Low", "Medium", "High"}
CalculationTypes == {"rainwater", "recharge"}

\* Coefficient tables (coefficientsSchema).
CoefficientsA ==
    [runoffCoefficients |->
        [RCC |-> Q(8, 10), GI |-> Q(9, 10), Asbestos |-> Q(8, 10), Tiles |-> Q(75, 100)],
     infiltrationRates |-> [Sandy |-> Num(25), Loamy |-> Num(15), Clayey |-> Num(5)],
     costFactors |->
        [baseCostPerSqm |-> Num(500),
         budgetMultipliers |-> [Low |-> Q(7, 10), Medium |-> Num(1), High |-> Q(15, 10)]],
     waterRates |-> [municipalRate |-> Q(2, 100), domesticConsumption |-> Num(135)]]

CoefficientsB ==
    [runoffCoefficients |->
        [RCC |-> Q(85, 100), GI |-> Q(95, 100), Asbestos |-> Q(7, 10), Tiles |-> Q(8, 10)],
     infiltrationRates |-> [Sandy |-> Num(30), Loamy |-> Q(125, 10), Clayey |-> Num(2)],
     costFactors |->
        [baseCostPerSqm |-> Num(150),
         budgetMultipliers |-> [Low |-> Q(8, 10), Medium |-> Q(12, 10), High |-> Num(2)]],
     waterRates |-> [municipalRate |-> Q(5, 100), domesticConsumption |-> Num(100)]]

CoefficientTables == {CoefficientsA, CoefficientsB}

(***************************************************************************)
(* CalculationEngine                                                       *)
(***************************************************************************)
Undefined == [kind |-> "undefined"]

\* Array.prototype.find, given the positions whose element passes the test:
\* the element at the first of them, or undefined.
find(table, passing) ==
    IF passing = {} THEN Undefined
    ELSE table[CHOOSE i \in passing : \A j \in passing : i <= j]

\* a || b on values that are objects or undefined
OrElse(a, b) == IF a # Undefined THEN a ELSE b

\* cities[0]
FirstCity == IF Len(cities) > 0 THEN cities[1] ELSE Undefined

DelhiName == <<"D","e","l","h","i">>

matchesPincode(city, pincode) == startsWith(city.pincode, substring0(pincode, 3))

matchesLocation(city, location) ==
    LET locationLower == toLowerCase(location)
    IN  \/ includes(toLowerCase(city.city), locationLower)
        \/ includes(locationLower, toLowerCase(city.city))
        \/ includes(toLowerCase(city.state), locationLower)

\* findCityData trying the location before the pincode.
findCityDataNameFirst(location, pincode) ==
    LET byName   == find(cities, {i \in 1..Len(cities) : matchesLocation(cities[i], location)})
        cityData == IF byName = Undefined
                    THEN find(cities, {i \in 1..Len(cities) : matchesPincode(cities[i], pincode)})
                    ELSE byName
    IN  OrElse(cityData,
               OrElse(find(cities, {i \in 1..Len(cities) : cities[i].city = DelhiName}), FirstCity))

findCityData(location, pincode) ==
    LET byPincode == find(cities, {i \in 1..Len(cities) : matchesPincode(cities[i], pincode)})
        cityData  == IF byPincode = Undefined
                     THEN find(cities, {i \in 1..Len(cities) : matchesLocation(cities[i], location)})
                     ELSE byPincode
    IN  OrElse(cityData,
               OrElse(find(cities, {i \in 1..Len(cities) : cities[i].city = DelhiName}), FirstCity))

RECURSIVE SumFrom(_, _)
SumFrom(seq, i) == IF i > Len(seq) THEN 0 ELSE seq[i] + SumFrom(seq, i + 1)
\* monthlyPotential.reduce((sum, month) => sum + month, 0)
Sum(seq) == SumFrom(seq, 1)

\* The sum of seq[i..last], a sequence of rationals.
RECURSIVE SumQFrom(_, _, _)
SumQFrom(seq, i, last) ==
    IF i > last THEN Num(0) ELSE Add(seq[i], SumQFrom(seq, i + 1, last))

\* calculateRainwaterPotential rounding the annual figure once, from the
\* year's rainfall, instead of adding the rounded months.
calculateRainwaterPotentialRoundedOnce(input, cityData) ==
    LET runoffCoeff == coefficients.runoffCoefficients[input.roofType]
        monthlyPotential ==
            [i \in 1..Len(cityData.monthlyRainfall) |->
                Round(Mul(Mul(input.roofArea, cityData.monthlyRainfall[i]), runoffCoeff))]
        yearRainfall ==
            SumQFrom(cityData.monthlyRainfall, 1, Len(cityData.monthlyRainfall))
    IN  [annual |-> Round(Mul(Mul(input.roofArea, yearRainfall), runoffCoeff)),
         monthly |-> monthlyPotential]

calculateRainwaterPotential(input, cityData) ==
    LET runoffCoeff == coefficients.runoffCoefficients[input.roofType]
        monthlyPotential ==
            [i \in 1..Len(cityData.monthlyRainfall) |->
                Round(Mul(Mul(input.roofArea, cityData.monthlyRainfall[i]), runoffCoeff))]
        annualPotential == Sum(monthlyPotential)
    IN  [annual |-> annualPotential, monthly |-> monthlyPotential]

calculateHouseholdDemand(input) ==
    LET dailyConsumption == coefficients.waterRates.domesticConsumption
        adjustmentFactor ==
            IF input.purpose = "Industrial" THEN Num(2)
            ELSE IF input.purpose = "Irrigation" THEN Q(15, 10)
            ELSE Num(1)
    IN  Round(Mul(Mul(Mul(input.dwellers, dailyConsumption), Num(365)), adjustmentFactor))

\* Math.PI, to seven digits.
Pi == Q(355, 113)

\* Number(Math.sqrt(x).toFixed(1)) for x >= 0: k/10 for the least k whose
\* upper rounding boundary (k + 1/2)/10 lies above sqrt(x).
RECURSIVE SqrtTenthsFrom(_, _)
SqrtTenthsFrom(x, k) ==
    IF x.n * 400 < (2 * k + 1) * (2 * k + 1) * x.d THEN k ELSE SqrtTenthsFrom(x, k + 1)
sqrtToFixed1(x) == Q(SqrtTenthsFrom(x, 0), 10)

\* The tank capacity before the 2000 L minimum is applied.
uncappedTankCapacity(rainwaterPotential, householdDemand) ==
    LET demandBasedCapacity == Round(Mul(Div(Num(householdDemand), Num(365)), Num(35)))
        potentialBasedCapacity == Round(Mul(Num(rainwaterPotential), Q(2, 10)))
    IN  Min(Min(demandBasedCapacity, potentialBasedCapacity), 15000)

\* The diameter of a cylinder of height tankHeight holding `liters`.
cylinderDiameter(liters, tankHeight) ==
    LET tankVolume == Div(Num(liters), Num(1000))
    IN  sqrtToFixed1(Div(Mul(tankVolume, Num(4)), Mul(Pi, tankHeight)))

\* calculateStorageTank without the 2000 L minimum.
calculateStorageTankNoMinimum(rainwaterPotential, monthlyPotential, householdDemand) ==
    LET tankCapacity == uncappedTankCapacity(rainwaterPotential, householdDemand)
        tankHeight == Num(2)
    IN  [capacity |-> tankCapacity,
         dimensions |-> [diameter |-> cylinderDiameter(tankCapacity, tankHeight),
                         height |-> tankHeight]]

calculateStorageTank(rainwaterPotential, monthlyPotential, householdDemand) ==
    LET tankCapacity == uncappedTankCapacity(rainwaterPotential, householdDemand)
        tankHeight == Num(2)
    IN  [capacity |-> Max(tankCapacity, 2000),
         dimensions |-> [diameter |-> cylinderDiameter(tankCapacity, tankHeight),
                         height |-> tankHeight]]

\* calculateRechargeSystem taking the pit depth unclamped and sizing the
\* width from the uncorrected side.
calculateRechargeSystemUnclamped(input, rainwaterPotential, cityData) ==
    LET infiltrationRate == coefficients.infiltrationRates[input.soilType]
        rechargeFactor ==
            IF input.soilType = "Loamy" THEN Q(8, 10)
            ELSE IF input.soilType = "Sandy" THEN Q(9, 10)
            ELSE Q(7, 10)
        rechargeVolume == Round(Mul(Div(Num(rainwaterPotential), Num(1000)), rechargeFactor))
        dailyInflowRate == Div(Num(rainwaterPotential), Num(120))
        operatingHours == Num(8)
        infiltrationRateMs == Div(infiltrationRate, Num(1000))
        minPitArea ==
            Div(dailyInflowRate, Mul(Mul(infiltrationRateMs, operatingHours), Num(1000)))
        maxDepth == MaxQ(Num(2), Mul(input.groundwaterDepth, Q(3, 10)))
        storageBasedArea == Div(Mul(Num(rechargeVolume), Q(12, 10)), maxDepth)
        requiredArea == MaxQ(minPitArea, storageBasedArea)
        pitSide == CeilSqrt(requiredArea)
    IN  [rechargeVolume |-> rechargeVolume,
         pitDimensions |-> [length |-> Max(pitSide, 3),
                            width |-> pitSide,
                            depth |-> maxDepth]]

calculateRechargeSystem(input, rainwaterPotential, cityData) ==
    LET infiltrationRate == coefficients.infiltrationRates[input.soilType]
        rechargeFactor ==
            IF input.soilType = "Loamy" THEN Q(8, 10)
            ELSE IF input.soilType = "Sandy" THEN Q(9, 10)
            ELSE Q(7, 10)
        rechargeVolume == Round(Mul(Div(Num(rainwaterPotential), Num(1000)), rechargeFactor))
        dailyInflowRate == Div(Num(rainwaterPotential), Num(120))
        operatingHours == Num(8)
        infiltrationRateMs == Div(infiltrationRate, Num(1000))
        minPitArea ==
            MaxQ(Num(9), Div(dailyInflowRate,
                             Mul(Mul(infiltrationRateMs, operatingHours), Num(1000))))
        maxDepth == MinQ(Num(4), MaxQ(Num(2), Mul(input.groundwaterDepth, Q(3, 10))))
        storageBasedArea == Div(Mul(Num(rechargeVolume), Q(12, 10)), maxDepth)
        requiredArea == MaxQ(minPitArea, storageBasedArea)
        pitSide == CeilSqrt(requiredArea)
    IN  [rechargeVolume |-> rechargeVolume,
         pitDimensions |-> [length |-> Max(pitSide, 3),
                            width |-> Max(pitSide, 3),
                            depth |-> maxDepth]]

\* calculateCosts charging the recharge structure in the wrong mode.
calculateCostsRechargeInverted(input, tankCapacity, hasRecharge) ==
    LET baseCost == Mul(input.roofArea, coefficients.costFactors.baseCostPerSqm)
        tankCost == Mul(Num(tankCapacity), Q(8, 10))
        rechargeCost == IF ~hasRecharge THEN Mul(input.roofArea, Num(150)) ELSE Num(0)
        totalBaseCost == Add(Add(baseCost, tankCost), rechargeCost)
        multipliers == coefficients.costFactors.budgetMultipliers
        systemCost == [low    |-> Round(Mul(totalBaseCost, multipliers.Low)),
                       medium |-> Round(Mul(totalBaseCost, multipliers.Medium)),
                       high   |-> Round(Mul(totalBaseCost, multipliers.High))]
        householdDemand == calculateHouseholdDemand(input)
        municipalRate == coefficients.waterRates.municipalRate
        maxSavableWater == Min(householdDemand, tankCapacity * 10)
        annualSavings == Round(Mul(Num(maxSavableWater), municipalRate))
        paybackPeriod == Round(Div(Num(systemCost.medium), Num(Max(annualSavings, 1))))
    IN  [systemCost |-> systemCost,
         annualSavings |-> annualSavings,
         paybackPeriod |-> Min(paybackPeriod, 20)]

\* calculateCosts without the 20-year cap.
calculateCostsUncapped(input, tankCapacity, hasRecharge) ==
    LET baseCost == Mul(input.roofArea, coefficients.costFactors.baseCostPerSqm)
        tankCost == Mul(Num(tankCapacity), Q(8, 10))
        rechargeCost == IF hasRecharge THEN Mul(input.roofArea, Num(150)) ELSE Num(0)
        totalBaseCost == Add(Add(baseCost, tankCost), rechargeCost)
        multipliers == coefficients.costFactors.budgetMultipliers
        systemCost == [low    |-> Round(Mul(totalBaseCost, multipliers.Low)),
                       medium |-> Round(Mul(totalBaseCost, multipliers.Medium)),
                       high   |-> Round(Mul(totalBaseCost, multipliers.High))]
        householdDemand == calculateHouseholdDemand(input)
        municipalRate == coefficients.waterRates.municipalRate
        maxSavableWater == Min(householdDemand, tankCapacity * 10)
        annualSavings == Round(Mul(Num(maxSavableWater), municipalRate))
    IN  [systemCost |-> systemCost,
         annualSavings |-> annualSavings,
         paybackPeriod |->
            Round(Div(Num(systemCost.medium), Num(Max(annualSavings, 1))))]

calculateCosts(input, tankCapacity, hasRecharge) ==
    LET baseCost == Mul(input.roofArea, coefficients.costFactors.baseCostPerSqm)
        tankCost == Mul(Num(tankCapacity), Q(8, 10))
        rechargeCost == IF hasRecharge THEN Mul(input.roofArea, Num(150)) ELSE Num(0)
        totalBaseCost == Add(Add(baseCost, tankCost), rechargeCost)
        multipliers == coefficients.costFactors.budgetMultipliers
        systemCost == [low    |-> Round(Mul(totalBaseCost, multipliers.Low)),
                       medium |-> Round(Mul(totalBaseCost, multipliers.Medium)),
                       high   |-> Round(Mul(totalBaseCost, multipliers.High))]
        householdDemand == calculateHouseholdDemand(input)
        municipalRate == coefficients.waterRates.municipalRate
        maxSavableWater == Min(householdDemand, tankCapacity * 10)
        annualSavings == Round(Mul(Num(maxSavableWater), municipalRate))
        paybackPeriod == Round(Div(Num(systemCost.medium), Num(Max(annualSavings, 1))))
    IN  [systemCost |-> systemCost,
         annualSavings |-> annualSavings,
         paybackPeriod |-> Min(paybackPeriod, 20)]

\* cityData.monthlyRainfall.slice(5, 9).reduce(...): June to September.
monsoonRainfallOf(cityData) ==
    SumQFrom(cityData.monthlyRainfall, 6, Min(9, Len(cityData.monthlyRainfall)))

\* feasibilityRawScore giving nothing for a roof that is neither RCC, GI nor
\* tiles, and nothing for partial coverage.
feasibilityRawScoreNoFloor(input, cityData, rainwaterPotential, householdDemand) ==
    LET coverage == Mul(Div(Num(rainwaterPotential), Num(householdDemand)), Num(100))
        rainfall == IF Gt(cityData.annualRainfall, Num(1000)) THEN 25
                    ELSE IF Gt(cityData.annualRainfall, Num(600)) THEN 15
                    ELSE 5
        roof == IF input.roofType = "RCC" \/ input.roofType = "GI" THEN 20
                ELSE IF input.roofType = "Tiles" THEN 15
                ELSE 0
        soil == IF input.soilType = "Sandy" THEN 15
                ELSE IF input.soilType = "Loamy" THEN 10
                ELSE 5
        depth == IF Gt(input.groundwaterDepth, Num(3)) /\ Lt(input.groundwaterDepth, Num(30))
                 THEN 15
                 ELSE IF Le(input.groundwaterDepth, Num(3)) THEN 5
                 ELSE 10
        cover == IF Gt(coverage, Num(80)) THEN 10
                 ELSE IF Gt(coverage, Num(50)) THEN 7
                 ELSE 0
    IN  50 + rainfall + roof + soil + depth + cover

\* The score accumulated by the five factors, before it is capped.
feasibilityRawScore(input, cityData, rainwaterPotential, householdDemand) ==
    LET coverage == Mul(Div(Num(rainwaterPotential), Num(householdDemand)), Num(100))
        rainfall == IF Gt(cityData.annualRainfall, Num(1000)) THEN 25
                    ELSE IF Gt(cityData.annualRainfall, Num(600)) THEN 15
                    ELSE 5
        roof == IF input.roofType = "RCC" \/ input.roofType = "GI" THEN 20
                ELSE IF input.roofType = "Tiles" THEN 15
                ELSE 10
        soil == IF input.soilType = "Sandy" THEN 15
                ELSE IF input.soilType = "Loamy" THEN 10
                ELSE 5
        depth == IF Gt(input.groundwaterDepth, Num(3)) /\ Lt(input.groundwaterDepth, Num(30))
                 THEN 15
                 ELSE IF Le(input.groundwaterDepth, Num(3)) THEN 5
                 ELSE 10
        cover == IF Gt(coverage, Num(80)) THEN 10
                 ELSE IF Gt(coverage, Num(50)) THEN 7
                 ELSE 3
    IN  50 + rainfall + roof + soil + depth + cover

feasibilityRecommendations(input, cityData, rainwaterPotential, householdDemand) ==
    LET coverage == Mul(Div(Num(rainwaterPotential), Num(householdDemand)), Num(100))
    IN  (IF Gt(cityData.annualRainfall, Num(1000))
         THEN <<"Excellent rainfall - consider larger storage capacity">>
         ELSE IF Gt(cityData.annualRainfall, Num(600))
         THEN <<"Good rainfall - standard system recommended">>
         ELSE <<>>)
        \o (IF input.roofType = "RCC"
            THEN <<"RCC roof is excellent for rainwater harvesting">>
            ELSE IF input.roofType = "GI"
            THEN <<"GI roof is excellent for rainwater harvesting">>
            ELSE IF input.roofType = "Tiles"
            THEN <<"Clay/concrete tiles are suitable with proper first flush diverter">>
            ELSE <<>>)
        \o (IF input.soilType = "Sandy"
            THEN <<"Sandy soil is ideal for groundwater recharge">>
            ELSE IF input.soilType = "Loamy"
            THEN <<"Loamy soil provides good infiltration for recharge">>
            ELSE <<"Clayey soil requires larger recharge structures">>)
        \o (IF Gt(input.groundwaterDepth, Num(3)) /\ Lt(input.groundwaterDepth, Num(30))
            THEN <<"Optimal groundwater depth for recharge systems">>
            ELSE <<>>)
        \o (IF Gt(coverage, Num(80))
            THEN <<"Excellent coverage - consider selling excess water or larger recharge">>
            ELSE IF Gt(coverage, Num(50))
            THEN <<"Good coverage - system will significantly reduce water bills">>
            ELSE <<"Partial coverage - combine with water conservation measures">>)
        \o <<"Install first flush diverter to improve water quality">>
        \o (IF input.purpose = "Domestic"
            THEN <<"Consider UV/RO purification for drinking water use">>
            ELSE <<>>)
        \o (IF input.hasOpenSpace
            THEN <<"Connect overflow to recharge pit for maximum benefit">>
            ELSE <<>>)

feasibilityWarnings(input, cityData) ==
    (IF Gt(cityData.annualRainfall, Num(600)) THEN <<>>
     ELSE <<"Low rainfall area - consider supplementary water sources">>)
    \o (IF input.roofType \in {"RCC", "GI", "Tiles"} THEN <<>>
        ELSE <<"Asbestos roofs require regular cleaning and filtration">>)
    \o (IF Gt(input.groundwaterDepth, Num(3)) /\ Lt(input.groundwaterDepth, Num(30))
        THEN <<>>
        ELSE IF Le(input.groundwaterDepth, Num(3))
        THEN <<"Shallow groundwater - ensure proper drainage to prevent waterlogging">>
        ELSE <<"Deep groundwater - recharge benefits may take longer to realize">>)
    \o (IF input.birdNesting
        THEN <<"Bird nesting detected - install mesh covers and regular cleaning required">>
        ELSE <<>>)
    \o (IF input.environment = "Industrial"
        THEN <<"Industrial area - test water quality regularly and use appropriate filtration">>
        ELSE <<>>)
    \* monsoonRainfall / annualRainfall > 0.7, the quotient cleared of its
    \* denominator (annualRainfall >= 0; x / 0 is Infinity for x > 0, NaN for 0)
    \o (IF Gt(monsoonRainfallOf(cityData), Mul(Q(7, 10), cityData.annualRainfall))
        THEN <<"High monsoon dependency - 70%+ rainfall in 4 months">>
        ELSE <<>>)

\* score >= 80 ? 'High' : score >= 60 ? 'Medium' : 'Low'
levelOf(score) == IF score >= 80 THEN "High" ELSE IF score >= 60 THEN "Medium" ELSE "Low"

\* calculateFeasibility returning the uncapped score.
calculateFeasibilityUncapped(input, cityData, rainwaterPotential, householdDemand) ==
    LET score == feasibilityRawScore(input, cityData, rainwaterPotential, householdDemand)
    IN  [feasibilityScore |-> score,
         feasibilityLevel |-> levelOf(score),
         recommendations |->
            feasibilityRecommendations(input, cityData, rainwaterPotential, householdDemand),
         warnings |-> feasibilityWarnings(input, cityData)]

calculateFeasibility(input, cityData, rainwaterPotential, householdDemand) ==
    LET score == feasibilityRawScore(input, cityData, rainwaterPotential, householdDemand)
        feasibilityLevel == levelOf(score)
    IN  [feasibilityScore |-> Min(100, score),
         feasibilityLevel |-> feasibilityLevel,
         recommendations |->
            feasibilityRecommendations(input, cityData, rainwaterPotential, householdDemand),
         warnings |-> feasibilityWarnings(input, cityData)]

\* coveragePercentageOf without the cap at 100.
coveragePercentageUncapped(rainwaterPotential, householdDemand) ==
    Round(Mul(Div(Num(rainwaterPotential), Num(householdDemand)), Num(100)))

\* Math.min(100, Math.round((rainwaterPotential / householdDemand) * 100))
coveragePercentageOf(rainwaterPotential, householdDemand) ==
    Min(100, Round(Mul(Div(Num(rainwaterPotential), Num(householdDemand)), Num(100))))

\* withRechargeFields adding the recharge fields in every mode.
withRechargeFieldsAlways(results, input, type, rainwaterPotential, cityData) ==
    LET recharge == calculateRechargeSystem(input, rainwaterPotential, cityData)
    IN  results @@ [rechargeVolume |-> recharge.rechargeVolume,
                    pitDimensions |-> recharge.pitDimensions]

\* results with the recharge fields added when the mode asks for them.
withRechargeFields(results, input, type, rainwaterPotential, cityData) ==
    IF type = "recharge"
    THEN LET recharge == calculateRechargeSystem(input, rainwaterPotential, cityData)
         IN  results @@ [rechargeVolume |-> recharge.rechargeVolume,
                         pitDimensions |-> recharge.pitDimensions]
    ELSE results

\* calculate, given the city record it resolved.
calculateFor(input, type, cityData) ==
    LET potential == calculateRainwaterPotential(input, cityData)
        rainwaterPotential == potential.annual
        monthlyPotential == potential.monthly
        householdDemand == calculateHouseholdDemand(input)
        coveragePercentage == coveragePercentageOf(rainwaterPotential, householdDemand)
        firstFlush == Round(Mul(input.roofArea, Num(2)))
        tank == calculateStorageTank(rainwaterPotential, monthlyPotential, householdDemand)
        costs == calculateCosts(input, tank.capacity, type = "recharge")
        feasibility ==
            calculateFeasibility(input, cityData, rainwaterPotential, householdDemand)
        results ==
            [rainwaterPotential |-> rainwaterPotential,
             monthlyPotential |-> monthlyPotential,
             householdDemand |-> householdDemand,
             coveragePercentage |-> coveragePercentage,
             firstFlush |-> firstFlush,
             tankCapacity |-> tank.capacity,
             tankDimensions |-> tank.dimensions,
             systemCost |-> costs.systemCost,
             annualSavings |-> costs.annualSavings,
             paybackPeriod |-> costs.paybackPeriod,
             feasibilityScore |-> feasibility.feasibilityScore,
             feasibilityLevel |-> feasibility.feasibilityLevel,
             recommendations |-> feasibility.recommendations,
             warnings |-> feasibility.warnings]
    IN  withRechargeFields(results, input, type, rainwaterPotential, cityData)

\* calculate rejecting a request when the resolved record is not the one
\* the pincode names.
calculateStrictPincode(input, type, resolved) ==
    IF resolved = Undefined \/ ~matchesPincode(resolved, input.pincode)
    THEN [kind |-> "threw", message |-> "City data not found"]
    ELSE [kind |-> "returned", results |-> calculateFor(input, type, resolved)]

\* if (!cityData) throw new Error(`City data not found ...`); otherwise the
\* returned CalculationResults.
calculate(input, type, resolved) ==
    IF resolved = Undefined
    THEN [kind |-> "threw", message |-> "City data not found"]
    ELSE [kind |-> "returned", results |-> calculateFor(input, type, resolved)]

(***************************************************************************)
(* Requests                                                                *)
(***************************************************************************)
Digits == {"0","1","2","3","4","5","6","7","8","9"}

\* userInputSchema: what the boundary validator accepts.
userInputValid(u) ==
    /\ Len(u.location) >= 2
    /\ Len(u.pincode) = 6 /\ \A i \in 1..Len(u.pincode) : u.pincode[i] \in Digits
    /\ Ge(u.roofArea, Num(1))
    /\ u.roofType \in RoofTypes
    /\ u.environment \in Environments
    /\ u.birdNesting \in BOOLEAN
    /\ Ge(u.dwellers, Num(1))
    /\ u.purpose \in Purposes
    /\ u.hasOpenSpace \in BOOLEAN
    /\ Ge(u.groundwaterDepth, Num(0))
    /\ u.soilType \in SoilTypes
    /\ u.budget \in Budgets

Locations == { <<"M","u","m","b","a","i">>,
               <<"n","e","w"," ","d","e","l","h","i">>,
               <<"R","a","j">>,
               <<"P","u","n","e">> }

Pincodes == { <<"4","0","0","0","5","3">>,
              <<"1","1","0","0","9","2">>,
              <<"5","6","0","0","0","1">>,
              <<"4","0","0">> }

RoofAreas == { Q(1, 2), Num(1), Q(125, 2), Num(400) }
GroundwaterDepths == { Num(0), Num(10), Num(35) }

\* Who uses the water: a dweller count and a purpose.
Households ==
    { [dwellers |-> Num(0), purpose |-> "Domestic"],
      [dwellers |-> Num(1), purpose |-> "Domestic"],
      [dwellers |-> Num(5), purpose |-> "Irrigation"],
      [dwellers |-> Q(25, 2), purpose |-> "Industrial"] }

\* The site flags, which only select recommendation and warning texts.
QuietSite ==
    [environment |-> "Residential", birdNesting |-> FALSE,
     hasOpenSpace |-> TRUE, budget |-> "Medium"]
BusySite ==
    [environment |-> "Industrial", birdNesting |-> TRUE,
     hasOpenSpace |-> FALSE, budget |-> "Low"]

Building(roofArea, roofType, household, groundwaterDepth, soilType) ==
    [roofArea |-> roofArea, roofType |-> roofType,
     groundwaterDepth |-> groundwaterDepth, soilType |-> soilType] @@ household

Buildings ==
    { Building(a, r, h, g, s) :
        a \in RoofAreas, r \in RoofTypes, h \in Households,
        g \in GroundwaterDepths, s \in SoilTypes }

Request(location, pincode, building, site) ==
    [location |-> location, pincode |-> pincode] @@ building @@ site

Pune == <<"P","u","n","e">>
PunePincode == <<"5","6","0","0","0","1">>

\* The submitted records: every location and pincode for one building at two
\* sites, and every building at one address.
Submissions ==
    { Request(l, p,
              Building(Num(400), "RCC", [dwellers |-> Num(5), purpose |-> "Domestic"],
                       Num(10), "Sandy"),
              s) :
        l \in Locations, p \in Pincodes, s \in {QuietSite, BusySite} }
    \cup
    { Request(Pune, PunePincode, b, QuietSite) : b \in Buildings }

\* A few submissions, for runs that repeat a call.
RepeatSubmissions ==
    { Request(l, p,
              Building(Q(125, 2), "Tiles", [dwellers |-> Num(1), purpose |-> "Domestic"],
                       Num(10), "Loamy"),
              BusySite) :
        l \in {Pune, <<"M","u","m","b","a","i">>},
        p \in {PunePincode, <<"1","1","0","0","9","2">>} }

NoInput == [kind |-> "none"]

NoCall == [op |-> "none"]

\* new MemStorage(): an empty Map.
MemStorage ==
    /\ submissions = <<>>
    /\ issued = {}
    /\ clock = 0
    /\ saved = {}
    /\ lastCall = NoCall

Init ==
    /\ cities \in CityTables
    /\ coefficients \in CoefficientTables
    /\ pc = "idle"
    /\ userInput = NoInput
    /\ calculationType = "rainwater"
    /\ resolvedCity = Undefined
    /\ outcome = None
    /\ earlier = None
    /\ MemStorage

\* The boundary validator (userInputSchema) accepts one of the submitted
\* records, with a calculation type.
Accept(submitted) ==
    /\ pc = "idle"
    /\ \E u \in submitted, t \in CalculationTypes :
          /\ userInputValid(u)
          /\ userInput' = u
          /\ calculationType' = t
    /\ pc' = "validated"
    /\ UNCHANGED <<cities, coefficients, resolvedCity, outcome, earlier>>
    /\ UNCHANGED storageVars

Validate == Accept(Submissions)

\* The history of a finished call after one more call: the calls since are
\* counted up to two.
callCounted(history) ==
    IF history = None THEN None
    ELSE [history EXCEPT !.callsSince = Min(@ + 1, 2)]

\* Calculate keeping the resolved city at the head of the table, as a
\* most-recently-used cache would.
CalculateMovingCityToFront ==
    /\ pc = "validated"
    /\ resolvedCity' = findCityData(userInput.location, userInput.pincode)
    /\ outcome' = calculate(userInput, calculationType, resolvedCity')
    /\ pc' = outcome'.kind
    /\ earlier' = callCounted(earlier)
    /\ cities' = IF resolvedCity' = Undefined THEN cities
                 ELSE <<resolvedCity'>> \o SelectSeq(cities, LAMBDA c : c # resolvedCity')
    /\ UNCHANGED <<coefficients, userInput, calculationType>>
    /\ UNCHANGED storageVars

\* One call of calculationEngine.calculate(userInput, calculationType).  It
\* reads the two tables and writes neither.
Calculate ==
    /\ pc = "validated"
    /\ resolvedCity' = findCityData(userInput.location, userInput.pincode)
    /\ outcome' = calculate(userInput, calculationType, resolvedCity')
    /\ pc' = outcome'.kind
    /\ earlier' = callCounted(earlier)
    /\ UNCHANGED <<cities, coefficients, userInput, calculationType>>
    /\ UNCHANGED storageVars

\* The request ends: the result or the error has gone to the caller.
Finish ==
    /\ pc \in {"returned", "threw"}
    /\ pc' = "idle"
    /\ userInput' = NoInput
    /\ calculationType' = "rainwater"
    /\ resolvedCity' = Undefined
    /\ outcome' = None
    /\ UNCHANGED <<cities, coefficients, earlier>>
    /\ UNCHANGED storageVars

Next == Validate \/ Calculate \/ Finish

Spec == Init /\ [][Next]_vars

\* Runs that repeat calls: a finished call is kept in `earlier`, together with
\* the tables as they were, and later calls are compared with it.
ValidateRepeat == Accept(RepeatSubmissions)

Remember ==
    /\ pc \in {"returned", "threw"}
    /\ earlier = None
    /\ earlier' = [userInput |-> userInput, calculationType |-> calculationType,
                   outcome |-> outcome, cities |-> cities,
                   coefficients |-> coefficients, callsSince |-> 0]
    /\ UNCHANGED <<cities, coefficients, pc, userInput, calculationType, resolvedCity, outcome>>
    /\ UNCHANGED storageVars

NextRepeat == ValidateRepeat \/ Calculate \/ Finish \/ Remember

SpecRepeat == Init /\ [][NextRepeat]_vars

(***************************************************************************)
(* MemStorage                                                              *)
(*                                                                         *)
(* The Map is the sequence of its [key, value] entries in insertion order. *)
(* Each method is async without an await inside, so it runs as one step.   *)
(***************************************************************************)
MaxSaves == 2
MaxClock == 1
DefaultLimit == 10

UUIDs == { <<"uuid", k>> : k \in 1..(MaxSaves + 1) }

\* randomUUID(): the identifiers it can return, none of which it has issued.
randomUUID(issuedBefore) == UUIDs \ issuedBefore

MapKeys(map) == { map[i].key : i \in 1..Len(map) }

\* Map.prototype.get
MapGet(map, key) ==
    IF key \in MapKeys(map)
    THEN map[CHOOSE i \in 1..Len(map) : map[i].key = key].value
    ELSE Undefined

\* Map.prototype.set: a present key keeps its place and takes the new value.
MapSet(map, key, value) ==
    IF key \in MapKeys(map)
    THEN [i \in 1..Len(map) |->
             IF map[i].key = key THEN [key |-> key, value |-> value] ELSE map[i]]
    ELSE Append(map, [key |-> key, value |-> value])

\* Array.from(map.values())
MapValues(map) == [i \in 1..Len(map) |-> map[i].value]

\* One step of the stable sort with (a, b) => b.createdAt - a.createdAt: s
\* goes behind every element that is at least as recent.
RECURSIVE InsertByCreatedAt(_, _)
InsertByCreatedAt(sorted, s) ==
    IF sorted = <<>> THEN <<s>>
    ELSE IF Head(sorted).createdAt >= s.createdAt
         THEN <<Head(sorted)>> \o InsertByCreatedAt(Tail(sorted), s)
         ELSE <<s>> \o sorted

RECURSIVE SortFrom(_, _)
SortFrom(sorted, rest) ==
    IF rest = <<>> THEN sorted
    ELSE SortFrom(InsertByCreatedAt(sorted, Head(rest)), Tail(rest))

sortByCreatedAtDescending(list) == SortFrom(<<>>, list)

\* Array.prototype.slice(0, end)
slice0(list, end) ==
    LET stop == IF end < 0 THEN Max(Len(list) + end, 0) ELSE Min(end, Len(list))
    IN  SubSeq(list, 1, stop)

\* The limits getRecentSubmissions is called with; DefaultLimit stands for a
\* call without the argument.
Limits == {-1, 0, 1, DefaultLimit}

StoredInput(groundwaterDepth) ==
    Request(Pune, PunePincode,
            Building(Q(125, 2), "Tiles", [dwellers |-> Num(1), purpose |-> "Domestic"],
                     groundwaterDepth, "Loamy"),
            BusySite)

SavedCall(userInputs, type) ==
    [userInputs |-> userInputs, calculationType |-> type,
     results |-> calculateFor(userInputs, type, Delhi)]

\* The arguments saveSubmission is called with: a validated input, a
\* calculation type and the results calculated for them.
SavedCalls ==
    { SavedCall(StoredInput(Num(0)), "rainwater"),
      SavedCall(StoredInput(Num(10)), "recharge") }

\* saveSubmission keeping only the latest submission in the Map.
SaveSubmissionKeepingLatest ==
    /\ Cardinality(issued) < MaxSaves
    /\ \E call \in SavedCalls, id \in randomUUID(issued) :
          LET submission == [id |-> id,
                             userInputs |-> call.userInputs,
                             calculationType |-> call.calculationType,
                             results |-> call.results,
                             createdAt |-> clock]
          IN  /\ submissions' = <<[key |-> id, value |-> submission]>>
              /\ issued' = issued \cup {id}
              /\ saved' = saved \cup {submission}
              /\ lastCall' = [op |-> "saveSubmission", before |-> submissions,
                              result |-> submission]
    /\ UNCHANGED <<clock, engineVars>>

\* saveSubmission(userInputs, calculationType, results)
SaveSubmission ==
    /\ Cardinality(issued) < MaxSaves
    /\ \E call \in SavedCalls, id \in randomUUID(issued) :
          LET submission == [id |-> id,
                             userInputs |-> call.userInputs,
                             calculationType |-> call.calculationType,
                             results |-> call.results,
                             createdAt |-> clock]
          IN  /\ submissions' = MapSet(submissions, id, submission)
              /\ issued' = issued \cup {id}
              /\ saved' = saved \cup {submission}
              /\ lastCall' = [op |-> "saveSubmission", before |-> submissions,
                              result |-> submission]
    /\ UNCHANGED <<clock, engineVars>>

\* getSubmission(id)
GetSubmission(id) ==
    /\ lastCall' = [op |-> "getSubmission", before |-> submissions,
                    result |-> MapGet(submissions, id)]
    /\ UNCHANGED <<submissions, issued, clock, saved, engineVars>>

\* getRecentSubmissions(limit)
GetRecentSubmissions(limit) ==
    /\ lastCall' = [op |-> "getRecentSubmissions", before |-> submissions,
                    result |-> slice0(sortByCreatedAtDescending(MapValues(submissions)),
                                      limit)]
    /\ UNCHANGED <<submissions, issued, clock, saved, engineVars>>

\* Time passes between two calls.
Tick ==
    /\ clock < MaxClock
    /\ clock' = clock + 1
    /\ UNCHANGED <<submissions, issued, saved, lastCall, engineVars>>

\* The store of a server whose tables are loaded and which has no request
\* in hand.
InitStorage ==
    /\ cities = <<Delhi>>
    /\ coefficients = CoefficientsA
    /\ pc = "idle"
    /\ userInput = NoInput
    /\ calculationType = "rainwater"
    /\ resolvedCity = Undefined
    /\ outcome = None
    /\ earlier = None
    /\ MemStorage

NextStorage ==
    \/ SaveSubmission
    \/ \E id \in UUIDs : GetSubmission(id)
    \/ \E limit \in Limits : GetRecentSubmissions(limit)
    \/ Tick

SpecStorage == InitStorage /\ [][NextStorage]_vars

(***************************************************************************)
(* Properties                                                              *)
(***************************************************************************)
Returned == pc = "returned"
results == outcome.results

\* m is x rounded to the nearest integer, a tie going up: m - 1/2 <= x < m + 1/2.
IsRounded(m, x) ==
    /\ (2 * m - 1) * x.d <= 2 * x.n
    /\ 2 * x.n < (2 * m + 1) * x.d

\* The integer nearest to x >= 0, a tie going up: the whole part, and one more
\* when the remainder is at least half.
Nearest(x) == (x.n \div x.d) + (IF 2 * (x.n % x.d) >= x.d THEN 1 ELSE 0)

\* The total of a sequence of integers, added from its last entry down.
RECURSIVE TotalOf(_)
TotalOf(seq) ==
    IF Len(seq) = 0 THEN 0 ELSE TotalOf(SubSeq(seq, 1, Len(seq) - 1)) + seq[Len(seq)]

\* roofArea x rainfall of month i x runoff coefficient of the roof type.
MonthlyRunoff(i) ==
    Mul(Mul(userInput.roofArea, resolvedCity.monthlyRainfall[i]),
        coefficients.runoffCoefficients[userInput.roofType])

\* C1: whenever calculate has returned, monthlyPotential has one entry per
\* monthly rainfall figure of the resolved city, each entry is roofArea x that
\* month's rainfall x the roof type's runoff coefficient rounded to the
\* nearest integer, and rainwaterPotential is exactly the sum of the entries.
C1_MonthlySumsToAnnual ==
    Returned =>
        /\ Len(results.monthlyPotential) = Len(resolvedCity.monthlyRainfall)
        /\ \A i \in 1..Len(results.monthlyPotential) :
              IsRounded(results.monthlyPotential[i], MonthlyRunoff(i))
        /\ results.rainwaterPotential = TotalOf(results.monthlyPotential)

\* A call has returned twelve monthly figures of which one was rounded up
\* and one rounded down, so the sum of the rounded figures is not forced.
C1_Witness ==
    /\ Returned
    /\ Len(results.monthlyPotential) = 12
    /\ results.rainwaterPotential > 0
    /\ \E i, j \in 1..12 :
          /\ Lt(MonthlyRunoff(i), Num(results.monthlyPotential[i]))
          /\ Gt(MonthlyRunoff(j), Num(results.monthlyPotential[j]))

\* The two candidate capacities, as exact quantities.
DemandOf35Days == Mul(Div(Num(results.householdDemand), Num(365)), Num(35))
FifthOfPotential == Mul(Num(results.rainwaterPotential), Q(2, 10))

\* C2 as stated: tankCapacity is within [2000, 15000] and equals
\* max(2000, min(35 days of demand, 20% of the annual potential, 15000)).
C2_CapacityIsExactMinimum ==
    Returned =>
        /\ results.tankCapacity >= 2000 /\ results.tankCapacity <= 15000
        /\ Num(results.tankCapacity) =
              MaxQ(Num(2000), MinQ(MinQ(DemandOf35Days, FifthOfPotential), Num(15000)))

\* C2, amended: tankCapacity is within [2000, 15000] and equals
\* max(2000, min(a, b, 15000)) where a is 35 days of household demand and b is
\* 20% of the annual potential, each rounded to the nearest liter.
C2_CapacityWithinBounds ==
    Returned =>
        /\ results.tankCapacity >= 2000 /\ results.tankCapacity <= 15000
        /\ results.tankCapacity =
              Max(2000, Min(Min(Nearest(DemandOf35Days), Nearest(FifthOfPotential)), 15000))

\* A call has returned a capacity strictly inside the range, fixed by a 20%
\* share of the potential that is not a whole number of liters.
C2_Witness ==
    /\ Returned
    /\ results.tankCapacity > 2000 /\ results.tankCapacity < 15000
    /\ Lt(FifthOfPotential, DemandOf35Days)
    /\ FifthOfPotential.d # 1
    /\ results.tankCapacity = Nearest(FifthOfPotential)

\* The factor totals of the feasibility score, read from the input and the
\* resolved city.
RawScore ==
    feasibilityRawScore(userInput, resolvedCity, results.rainwaterPotential,
                        results.householdDemand)

\* C3: whenever calculate has returned, feasibilityScore is within [0, 100]
\* and feasibilityLevel is 'High' exactly when the returned score is >= 80,
\* 'Medium' exactly when it is >= 60 and < 80, and 'Low' exactly when it is
\* below 60.
C3_LevelMatchesScore ==
    Returned =>
        LET score == results.feasibilityScore
            level == results.feasibilityLevel
        IN  /\ score >= 0 /\ score <= 100
            /\ (level = "High") <=> (score >= 80)
            /\ (level = "Medium") <=> (score >= 60 /\ score < 80)
            /\ (level = "Low") <=> (score < 60)

\* A call has returned a score that the cap brought down to 100, with the
\* level taken from the uncapped total.
C3_Witness ==
    /\ Returned
    /\ RawScore > 100
    /\ results.feasibilityScore = 100
    /\ results.feasibilityLevel = "High"

\* potential / demand x 100, as an exact quantity.
CoverageRatio ==
    Mul(Div(Num(results.rainwaterPotential), Num(results.householdDemand)), Num(100))

\* C4: for a validated input (roofArea >= 1, dwellers >= 1), whenever
\* calculate has returned, coveragePercentage is within [0, 100] and is
\* min(100, round(rainwaterPotential / householdDemand x 100)).
C4_CoverageWithinBounds ==
    Returned =>
        LET coverage == results.coveragePercentage
        IN  /\ Ge(userInput.roofArea, Num(1)) /\ Ge(userInput.dwellers, Num(1))
            /\ coverage >= 0 /\ coverage <= 100
            /\ \/ coverage < 100 /\ IsRounded(coverage, CoverageRatio)
               \/ coverage = 100 /\ Ge(CoverageRatio, Q(199, 2))

\* A call has returned a coverage of 100 for a potential of more than twice
\* the demand: the cap decided the figure.
C4_Witness ==
    /\ Returned
    /\ results.rainwaterPotential > 2 * results.householdDemand
    /\ results.coveragePercentage = 100


\* The medium-tier cost over max(annualSavings, 1), as an exact quantity.
PaybackRatio ==
    Div(Num(results.systemCost.medium), Num(Max(results.annualSavings, 1)))

\* C5 as stated: in both modes paybackPeriod is within [0, 20] and is the
\* medium-tier cost divided by max(annualSavings, 1), capped at 20.
C5_PaybackIsExactQuotient ==
    Returned =>
        /\ results.paybackPeriod >= 0 /\ results.paybackPeriod <= 20
        /\ Num(results.paybackPeriod) = MinQ(PaybackRatio, Num(20))

\* C5, amended: in both modes paybackPeriod is within [0, 20] and is the
\* medium-tier cost divided by max(annualSavings, 1), rounded to the nearest
\* whole number of years and then capped at 20.
C5_PaybackWithinBounds ==
    Returned =>
        LET payback == results.paybackPeriod
        IN  /\ calculationType \in {"rainwater", "recharge"}
            /\ payback >= 0 /\ payback <= 20
            /\ \/ payback < 20 /\ IsRounded(payback, PaybackRatio)
               \/ payback = 20 /\ Ge(PaybackRatio, Q(39, 2))

\* A recharge call has returned a payback period below the cap that is the
\* rounding of a quotient that is not a whole number.
C5_Witness ==
    /\ Returned
    /\ calculationType = "recharge"
    /\ results.paybackPeriod > 0 /\ results.paybackPeriod < 20
    /\ PaybackRatio.d # 1

RechargeFieldNames == {"rechargeVolume", "pitDimensions"}

\* C6: whenever calculate has returned, the result has both rechargeVolume
\* and pitDimensions if the calculation type is 'recharge' and has neither if
\* it is 'rainwater'.
C6_RechargeFieldsOnlyInRechargeMode ==
    Returned =>
        /\ calculationType = "recharge" => RechargeFieldNames \subseteq DOMAIN results
        /\ calculationType = "rainwater" => RechargeFieldNames \cap DOMAIN results = {}

\* A recharge call has returned a positive recharge volume and a pit.
C6_Witness ==
    /\ Returned
    /\ calculationType = "recharge"
    /\ RechargeFieldNames \subseteq DOMAIN results
    /\ results.rechargeVolume > 0
    /\ results.pitDimensions.length >= 3

\* The table positions whose pincode starts with the first three digits of
\* the request's pincode.
PincodeMatches ==
    { i \in 1..Len(cities) :
        /\ Len(cities[i].pincode) >= 3
        /\ \A k \in 1..3 : cities[i].pincode[k] = userInput.pincode[k] }

\* The table positions whose city or state name matches the request's
\* location, case ignored: one of city name and location contains the other,
\* or the state name contains the location.
LocationMatches ==
    { i \in 1..Len(cities) :
        LET place == toLowerCase(userInput.location)
            name  == toLowerCase(cities[i].city)
            state == toLowerCase(cities[i].state)
        IN  includes(name, place) \/ includes(place, name) \/ includes(state, place) }

DelhiPositions == { i \in 1..Len(cities) : cities[i].city = <<"D","e","l","h","i">> }

Least(S) == CHOOSE i \in S : \A j \in S : i <= j

\* C7: whenever calculate has returned, the city it resolved is the first
\* table entry matching the pincode prefix if there is one, whatever the
\* location; otherwise the first entry matching the location; otherwise the
\* entry named 'Delhi'; otherwise the first table entry.
C7_CityResolutionPriority ==
    Returned =>
        resolvedCity =
            IF PincodeMatches # {} THEN cities[Least(PincodeMatches)]
            ELSE IF LocationMatches # {} THEN cities[Least(LocationMatches)]
            ELSE IF DelhiPositions # {} THEN cities[Least(DelhiPositions)]
            ELSE cities[1]

\* A call has returned where the pincode matched one entry and the location
\* an earlier, different entry, and the pincode's entry was resolved.
C7_Witness ==
    /\ Returned
    /\ PincodeMatches # {} /\ LocationMatches # {}
    /\ Least(LocationMatches) < Least(PincodeMatches)
    /\ resolvedCity = cities[Least(PincodeMatches)]

\* C8: calculate has thrown 'City data not found' exactly when the city
\* table is empty; with a non-empty table city resolution yields a record of
\* the table for every validated input and mode, and the call has returned a
\* result.
C8_ThrowsOnlyOnEmptyTable ==
    /\ pc = "threw" =>
          cities = <<>> /\ outcome = [kind |-> "threw", message |-> "City data not found"]
    /\ pc = "returned" =>
          /\ cities # <<>>
          /\ \E i \in 1..Len(cities) : resolvedCity = cities[i]
          /\ outcome.kind = "returned"
    /\ pc = "validated" =>
          (findCityData(userInput.location, userInput.pincode) = Undefined
              <=> cities = <<>>)
    /\ pc \in {"returned", "threw"} => userInputValid(userInput)

\* A call on the empty table has thrown.
C8_Witness ==
    /\ pc = "threw"
    /\ cities = <<>>
    /\ outcome.message = "City data not found"

\* C9: once a finished call is kept, the city and coefficient tables stay as
\* they were then, however many calls follow, and every later call with the
\* same input and calculation type ends with an equal outcome.
C9_CalculateIsStateless ==
    earlier # None =>
        /\ cities = earlier.cities
        /\ coefficients = earlier.coefficients
        /\ (/\ pc \in {"returned", "threw"}
            /\ userInput = earlier.userInput
            /\ calculationType = earlier.calculationType)
           => outcome = earlier.outcome

\* The kept call has been repeated after another call in between, and has
\* returned the kept outcome.
C9_Witness ==
    /\ earlier # None
    /\ earlier.callsSince = 2
    /\ Returned
    /\ userInput = earlier.userInput
    /\ calculationType = earlier.calculationType
    /\ outcome = earlier.outcome

\* C10 as stated: the returned tankDimensions are those of a cylinder of
\* height 2 m holding the returned tankCapacity, the diameter rounded to one
\* decimal, also when the capacity was raised to the 2000-liter minimum.
C10_DimensionsHoldCapacity ==
    Returned =>
        /\ results.tankDimensions.height = Num(2)
        /\ results.tankDimensions.diameter = cylinderDiameter(results.tankCapacity, Num(2))


\* roofArea x base cost per m2 + the returned tankCapacity x 0.8, plus
\* roofArea x 150 when the structure is a recharge one.
BaseCostFor(type) ==
    Add(Add(Mul(userInput.roofArea, coefficients.costFactors.baseCostPerSqm),
            Q(results.tankCapacity * 8, 10)),
        IF type = "recharge" THEN Mul(userInput.roofArea, Num(150)) ELSE Num(0))

\* The three tier costs of the same input in rainwater mode.
RainwaterCosts == calculateFor(userInput, "rainwater", resolvedCity).systemCost

\* C11: whenever calculate has returned, each of the low, medium and high
\* system costs is the base cost (roofArea x base cost per m2 + returned
\* tankCapacity x 0.8, plus roofArea x 150 exactly in recharge mode) times its
\* budget multiplier, rounded; and a recharge result has no tier cheaper than
\* the rainwater result for the same input.
C11_TierCostsFromBaseCost ==
    Returned =>
        LET base == BaseCostFor(calculationType)
            multipliers == coefficients.costFactors.budgetMultipliers
            cost == results.systemCost
        IN  /\ IsRounded(cost.low, Mul(base, multipliers.Low))
            /\ IsRounded(cost.medium, Mul(base, multipliers.Medium))
            /\ IsRounded(cost.high, Mul(base, multipliers.High))
            /\ calculationType = "recharge" =>
                  /\ cost.low >= RainwaterCosts.low
                  /\ cost.medium >= RainwaterCosts.medium
                  /\ cost.high >= RainwaterCosts.high

\* A recharge call has returned, for a capacity raised to the 2000 L minimum,
\* three tiers each dearer than in rainwater mode, one of them rounded.
C11_Witness ==
    /\ Returned
    /\ calculationType = "recharge"
    /\ results.tankCapacity = 2000
    /\ results.systemCost.low > RainwaterCosts.low
    /\ results.systemCost.medium > RainwaterCosts.medium
    /\ results.systemCost.high > RainwaterCosts.high
    /\ Mul(BaseCostFor("recharge"), coefficients.costFactors.budgetMultipliers.Low).d # 1


\* groundwaterDepth x 0.3 clamped to [2, 4].
ClampedDepth ==
    LET raw == Q(userInput.groundwaterDepth.n * 3, userInput.groundwaterDepth.d * 10)
    IN  IF Lt(raw, Num(2)) THEN Num(2) ELSE IF Gt(raw, Num(4)) THEN Num(4) ELSE raw

\* C12: whenever a recharge call has returned for an input with
\* groundwaterDepth >= 0, the pit is square, each side is a whole number of
\* metres and at least 3, and the depth is groundwaterDepth x 0.3 clamped to
\* [2, 4].
C12_PitIsSquareAndDepthClamped ==
    (Returned /\ calculationType = "recharge" /\ Ge(userInput.groundwaterDepth, Num(0))) =>
        LET pit == results.pitDimensions
        IN  /\ pit.length = pit.width
            /\ pit.length \in Nat /\ pit.width \in Nat
            /\ pit.length >= 3 /\ pit.width >= 3
            /\ pit.depth = ClampedDepth

\* A recharge call has returned a pit wider than the 3 m minimum whose depth
\* was brought down to 4 m.
C12_Witness ==
    /\ Returned
    /\ calculationType = "recharge"
    /\ Gt(Mul(userInput.groundwaterDepth, Q(3, 10)), Num(4))
    /\ results.pitDimensions.depth = Num(4)
    /\ results.pitDimensions.length > 3
    /\ results.pitDimensions.width = results.pitDimensions.length


\* The smallest total the five factors can add to the base of 50.
LeastScore == 50 + 5 + 10 + 5 + 5 + 3

\* C14: whenever calculate has returned, the score accumulated before the
\* cap is at least 78, the returned feasibilityScore is within [78, 100] and
\* the returned feasibilityLevel is not 'Low'.
C14_ScoreAtLeast78 ==
    Returned =>
        /\ LeastScore = 78
        /\ RawScore >= 78
        /\ results.feasibilityScore >= 78 /\ results.feasibilityScore <= 100
        /\ results.feasibilityLevel # "Low"
        /\ results.feasibilityLevel \in {"Medium", "High"}

\* A call has returned the smallest score: low rainfall, an asbestos roof,
\* clayey soil, shallow groundwater and coverage of at most half the demand.
C14_Witness ==
    /\ Returned
    /\ Le(resolvedCity.annualRainfall, Num(600))
    /\ userInput.roofType = "Asbestos"
    /\ userInput.soilType = "Clayey"
    /\ Le(userInput.groundwaterDepth, Num(3))
    /\ Le(CoverageRatio, Num(50))
    /\ results.feasibilityScore = 78
    /\ results.feasibilityLevel = "Medium"


\* C13: the store is append-only.  Every submission saveSubmission has
\* returned is still what getSubmission returns for its id, with the same
\* input, calculation type, results and timestamp; a save adds exactly one
\* entry, under an id the Map did not hold, behind the entries it held; and
\* getSubmission and getRecentSubmissions leave the Map as it was.
C13_StoreIsAppendOnly ==
    /\ \A s \in saved :
          LET got == MapGet(submissions, s.id)
          IN  /\ got # Undefined
              /\ got.id = s.id
              /\ got.userInputs = s.userInputs
              /\ got.calculationType = s.calculationType
              /\ got.results = s.results
              /\ got.createdAt = s.createdAt
    /\ Cardinality(saved) = Len(submissions)
    /\ Cardinality(MapKeys(submissions)) = Len(submissions)
    /\ lastCall.op = "saveSubmission" =>
          /\ Len(submissions) = Len(lastCall.before) + 1
          /\ SubSeq(submissions, 1, Len(lastCall.before)) = lastCall.before
          /\ lastCall.result.id \notin MapKeys(lastCall.before)
          /\ submissions[Len(submissions)] =
                [key |-> lastCall.result.id, value |-> lastCall.result]
    /\ lastCall.op \in {"getSubmission", "getRecentSubmissions"} =>
          submissions = lastCall.before

\* Two submissions were saved at different times and getRecentSubmissions
\* has then returned both, the later one first, which is not the order the
\* Map holds them in.
C13_Witness ==
    /\ Len(submissions) = 2
    /\ Cardinality(saved) = 2
    /\ lastCall.op = "getRecentSubmissions"
    /\ Len(lastCall.result) = 2
    /\ lastCall.result[1] = submissions[2].value
    /\ lastCall.result[2] = submissions[1].value
    /\ lastCall.result[1].createdAt > lastCall.result[2].createdAt

=============================================================================
